---- MODULE Spec2Model ----
(***************************************************************************)
(* Model of src/agent.py: MyAgent, the move-scoring decision policy.       *)
(*                                                                         *)
(* Numbers.  Scores are Python floats; here every score is the exact       *)
(* rational value multiplied by Scale, so that all the factors of the      *)
(* source (0.04, 0.05, 0.125, 1.5, a mean over a damage range ...) stay    *)
(* integers.  HP fractions and accuracies are held in hundredths           *)
(* (0.8 is 80, 0.85 is 85), matchup estimates in units of 1/200.           *)
(*                                                                         *)
(* None.  A missing Pokemon is the record None (is_none = TRUE); Python's  *)
(* "not mon" is mon.is_none.  A missing string is "", a missing dict <<>>. *)
(* A dict is a sequence of <<key, value>> pairs in insertion order.        *)
(***************************************************************************)
EXTENDS Integers, Sequences, FiniteSets

VARIABLES
    battle,       \* the snapshot handed to the agent by the battle client
    used_trick,   \* self.used_trick: the battle tags stored with value True
    call,         \* the method of MyAgent that ran last, and its move argument
    score,        \* the number that method returned (Raised: it did not return)
    order,        \* what choose_move returned
    move_scores,  \* choose_move's local list of scores, by position
    evaluations   \* history: per battle tag, the Trick evaluations so far

vars == <<battle, used_trick, call, score, order, move_scores, evaluations>>

Scale == 128 * 3 * 625

\* The value a raised AttributeError is shown as; every returned score is >= 0.
Raised == 0 - 1

PHYSICAL == "PHYSICAL"
SPECIAL == "SPECIAL"
STATUS == "STATUS"

Stats == {"atk", "def", "spa", "spd", "spe", "accuracy", "evasion"}

NoBoosts == [s \in Stats |-> 0]

RECURSIVE Sum(_)
Sum(seq) == IF seq = <<>> THEN 0 ELSE Head(seq) + Sum(Tail(seq))

Min(a, b) == IF a <= b THEN a ELSE b

Max(a, b) == IF a >= b THEN a ELSE b

(***************************************************************************)
(* The snapshot's records.                                                 *)
(***************************************************************************)
None ==
    [is_none |-> TRUE, current_hp_fraction |-> 0, max_hp |-> 0, fainted |-> FALSE,
     ability |-> "", types |-> <<>>, spe |-> 0, boosts |-> NoBoosts,
     status |-> "", protect_counter |-> 0]

Pokemon(hp, max_hp, ability, types, spe, boosts, status, protect_counter) ==
    [is_none |-> FALSE, current_hp_fraction |-> hp, max_hp |-> max_hp,
     fainted |-> (hp = 0), ability |-> ability, types |-> types, spe |-> spe,
     boosts |-> boosts, status |-> status, protect_counter |-> protect_counter]

\* The damage oracle's answer for one move under one snapshot.
Range(r) == [raises |-> FALSE, range |-> r]

Fails == [raises |-> TRUE, range |-> <<>>]

Move(id, category, base_power, accuracy, calc) ==
    [id |-> id, category |-> category, base_power |-> base_power,
     accuracy |-> accuracy, side_condition |-> "", self_boost |-> <<>>,
     status |-> "", is_protect_move |-> FALSE, boosts |-> <<>>, calc |-> calc]

\* A team: one entry per slot.
Team(alive, fainted) ==
    [i \in 1..(alive + fainted) |-> [fainted |-> (i > alive)]]

(***************************************************************************)
(* Helper methods.                                                         *)
(***************************************************************************)
count_remaining_mons(team) ==
    Cardinality({i \in DOMAIN team : ~team[i].fainted})

estimate_remaining_turns(b) ==
    LET base_estimate == IF b.turn <= 5 THEN 12
                         ELSE IF b.turn <= 15 THEN 8
                         ELSE 4
        our_remaining == count_remaining_mons(b.team)
        opp_remaining == count_remaining_mons(b.opponent_team)
        min_remaining == Min(our_remaining, opp_remaining)
        adjusted == IF min_remaining <= 2 THEN Min(base_estimate, 5)
                    ELSE base_estimate
    IN  Max(3, Min(15, adjusted))

\* calculate_damage(attacker, defender, move, battle): the external oracle.
calculate_damage(b, move) == move.calc

\* Mutant: an oracle failure scores 0 instead of the base power.
evaluate_damage_move_without_fallback(b, move) ==
    LET damage_range == calculate_damage(b, move)
    IN  IF damage_range.raises THEN 0
        ELSE IF Len(damage_range.range) > 0
             THEN (Sum(damage_range.range) * Scale) \div Len(damage_range.range)
             ELSE 0

evaluate_damage_move(b, move) ==
    LET damage_range == calculate_damage(b, move)
    IN  IF damage_range.raises
        THEN (IF move.base_power # 0 THEN move.base_power * Scale ELSE 0)
        ELSE IF Len(damage_range.range) > 0
             THEN (Sum(damage_range.range) * Scale) \div Len(damage_range.range)
             ELSE 0

RECURSIVE best_damage_from(_, _, _, _)
best_damage_from(b, category, i, best_score) ==
    IF i > Len(b.available_moves) THEN best_score
    ELSE LET move == b.available_moves[i]
         IN  IF category # "" /\ move.category # category
             THEN best_damage_from(b, category, i + 1, best_score)
             ELSE IF move.category \in {PHYSICAL, SPECIAL}
                  THEN best_damage_from(b, category, i + 1,
                                        Max(best_score, evaluate_damage_move(b, move)))
                  ELSE best_damage_from(b, category, i + 1, best_score)

get_best_damage_score(b, category) ==
    LET best_score == best_damage_from(b, category, 1, 0)
    IN  IF best_score > 0 THEN best_score ELSE 120 * Scale

\* The battle library's type chart over fire, water and grass, in halves (2 is a
\* neutral hit); every other type hits and is hit neutrally.
TypeChart(attacking, defending) ==
    IF <<attacking, defending>> \in
           {<<"fire", "grass">>, <<"water", "fire">>, <<"grass", "water">>}
    THEN 4
    ELSE IF attacking \in {"fire", "water", "grass"}
            /\ defending \in {"fire", "water", "grass"}
    THEN 1
    ELSE 2

\* Pokemon.damage_multiplier(type), in quarters (4 is a neutral hit).
damage_multiplier(mon, t) ==
    IF Len(mon.types) = 0 THEN 4
    ELSE IF Len(mon.types) = 1 THEN 2 * TypeChart(t, mon.types[1])
    ELSE TypeChart(t, mon.types[1]) * TypeChart(t, mon.types[2])

MaxOf(S, default) ==
    IF S = {} THEN default ELSE CHOOSE x \in S : \A y \in S : y <= x

\* In units of 1/200.
estimate_matchup(mon, opponent) ==
    IF mon.is_none \/ opponent.is_none THEN 0
    ELSE LET offensive_advantage ==
                 MaxOf({damage_multiplier(opponent, mon.types[i]) :
                            i \in DOMAIN mon.types}, 4)
             defensive_advantage ==
                 MaxOf({damage_multiplier(mon, opponent.types[i]) :
                            i \in DOMAIN opponent.types}, 4)
             speed == IF mon.spe > opponent.spe THEN 200
                      ELSE IF mon.spe < opponent.spe THEN 0 - 200
                      ELSE 0
         IN  (offensive_advantage - 4) * 100
             - (defensive_advantage - 4) * 100
             + speed
             + mon.current_hp_fraction * 4
             - opponent.current_hp_fraction * 4

is_favorable_setup_situation(b) ==
    LET active == b.active_pokemon
        opponent == b.opponent_active_pokemon
    IN  IF active.is_none \/ opponent.is_none THEN FALSE
        ELSE IF active.current_hp_fraction < 80 THEN FALSE
        ELSE IF estimate_matchup(active, opponent) < 0 THEN FALSE
        ELSE TRUE

\* Mutant: the last move of the greatest damage is the one returned.
RECURSIVE max_dmg_last_from(_, _, _, _)
max_dmg_last_from(b, i, best_move, highest_damage) ==
    IF i > Len(b.available_moves) THEN best_move
    ELSE LET move == b.available_moves[i]
             damage == evaluate_damage_move(b, move)
         IN  IF move.category # STATUS /\ damage >= highest_damage
             THEN max_dmg_last_from(b, i + 1, i, damage)
             ELSE max_dmg_last_from(b, i + 1, best_move, highest_damage)

max_dmg_move_last(b) == max_dmg_last_from(b, 1, 0, 0 - 1)

RECURSIVE max_dmg_from(_, _, _, _)
max_dmg_from(b, i, best_move, highest_damage) ==
    IF i > Len(b.available_moves) THEN best_move
    ELSE LET move == b.available_moves[i]
             damage == evaluate_damage_move(b, move)
         IN  IF move.category # STATUS /\ damage > highest_damage
             THEN max_dmg_from(b, i + 1, i, damage)
             ELSE max_dmg_from(b, i + 1, best_move, highest_damage)

\* The position in available_moves of the move returned; 0 is None.
max_dmg_move(b) == max_dmg_from(b, 1, 0, 0 - 1)

(***************************************************************************)
(* Status move evaluators.                                                 *)
(***************************************************************************)
\* Mutant: the hazard is worth laying against 2 remaining Pokemon already.
evaluate_hazard_from_two(b, move) ==
    LET opponent_remaining == count_remaining_mons(b.opponent_team)
    IN  IF move.side_condition \in b.opponent_side_conditions THEN 0
        ELSE IF opponent_remaining >= 2
             THEN (opponent_remaining * 5 * 25 * Scale) \div 2
             ELSE 0

evaluate_hazard(b, move) ==
    LET opponent_remaining == count_remaining_mons(b.opponent_team)
    IN  IF move.side_condition \in b.opponent_side_conditions THEN 0
        ELSE IF opponent_remaining >= 3
             THEN (opponent_remaining * 5 * 25 * Scale) \div 2
             ELSE 0

RECURSIVE setup_from(_, _, _, _, _)
setup_from(active, self_boost, i, best_damage, expected_attacks) ==
    IF i > Len(self_boost) THEN 0
    ELSE LET boost_amount == self_boost[i][2]
             current_boost == active.boosts[self_boost[i][1]]
         IN  IF boost_amount > 0 /\ current_boost < 6
             THEN LET boosted_damage == (best_damage * 3) \div 2
                      extra_damage == (boosted_damage - best_damage) * expected_attacks
                      opportunity_cost == best_damage \div 2
                  IN  Max(0, extra_damage - opportunity_cost)
             ELSE IF boost_amount < 0 /\ current_boost > 0 - 6
                  THEN (best_damage * 7) \div 10
                  ELSE setup_from(active, self_boost, i + 1, best_damage,
                                  expected_attacks)

evaluate_setup_move(b, move) ==
    LET active == b.active_pokemon
    IN  IF ~is_favorable_setup_situation(b) THEN 0
        ELSE LET best_damage == get_best_damage_score(b, "")
                 remaining_turns == estimate_remaining_turns(b)
                 expected_attacks == Min(3, remaining_turns \div 2)
             IN  setup_from(active, move.self_boost, 1, best_damage,
                            expected_attacks)

\* Mutant: the opponent's status is not looked at.
evaluate_status_infliction_unchecked(b, move) ==
    LET opponent == b.opponent_active_pokemon
    IN  IF opponent.is_none THEN 0
        ELSE LET opponent_hp == IF opponent.max_hp # 0 THEN opponent.max_hp ELSE 100
                 remaining_turns == estimate_remaining_turns(b)
             IN  IF move.accuracy >= 85
                 THEN opponent_hp * 4 * Min(remaining_turns, 8) * move.accuracy
                          * (Scale \div 10000)
                 ELSE IF move.accuracy >= 70
                      THEN opponent_hp * 3 * Min(remaining_turns, 6) * move.accuracy
                               * (Scale \div 10000)
                      ELSE 0

evaluate_status_infliction(b, move) ==
    LET opponent == b.opponent_active_pokemon
    IN  IF opponent.is_none \/ opponent.status # "" THEN 0
        ELSE LET opponent_hp == IF opponent.max_hp # 0 THEN opponent.max_hp ELSE 100
                 remaining_turns == estimate_remaining_turns(b)
             IN  IF move.accuracy >= 85
                 THEN opponent_hp * 4 * Min(remaining_turns, 8) * move.accuracy
                          * (Scale \div 10000)
                 ELSE IF move.accuracy >= 70
                      THEN opponent_hp * 3 * Min(remaining_turns, 6) * move.accuracy
                               * (Scale \div 10000)
                      ELSE 0

\* "poison heal" in ability.lower(), over the ability names of the model.
is_poison_heal(ability) == ability \in {"Poison Heal", "poison heal"}

\* Mutant: the counter is compared with 3.
evaluate_protect_from_three(b, move) ==
    LET active == b.active_pokemon
        protect_counter == IF active.is_none THEN 0 ELSE active.protect_counter
    IN  IF protect_counter >= 3 THEN 0
        ELSE IF active.is_none THEN Raised
        ELSE IF active.ability # "" /\ is_poison_heal(active.ability)
             THEN LET heal_value ==
                          ((IF active.max_hp # 0 THEN active.max_hp ELSE 100) * Scale)
                              \div 8
                  IN  IF protect_counter = 0 THEN heal_value
                      ELSE heal_value \div 2
        ELSE IF protect_counter = 0
             THEN (get_best_damage_score(b, "") * 2) \div 5
             ELSE 0

evaluate_protect(b, move) ==
    LET active == b.active_pokemon
        protect_counter == IF active.is_none THEN 0 ELSE active.protect_counter
    IN  IF protect_counter >= 2 THEN 0
        ELSE IF active.is_none THEN Raised
        ELSE IF active.ability # "" /\ is_poison_heal(active.ability)
             THEN LET heal_value ==
                          ((IF active.max_hp # 0 THEN active.max_hp ELSE 100) * Scale)
                              \div 8
                  IN  IF protect_counter = 0 THEN heal_value
                      ELSE heal_value \div 2
        ELSE IF protect_counter = 0
             THEN (get_best_damage_score(b, "") * 2) \div 5
             ELSE 0

debuff_value(b, stat, current_boost, expected_attacks) ==
    LET best_damage ==
            IF stat = "def" THEN get_best_damage_score(b, PHYSICAL)
            ELSE IF stat = "spd" THEN get_best_damage_score(b, SPECIAL)
            ELSE get_best_damage_score(b, "")
        extra_damage_per_hit == best_damage \div 2
        total_value == extra_damage_per_hit * expected_attacks
    IN  IF stat \in {"def", "spd"} /\ best_damage = 0 THEN 0
        ELSE IF current_boost = 0 THEN total_value
        ELSE IF current_boost >= 0 - 2 THEN total_value \div 4
        ELSE total_value \div 20

RECURSIVE debuff_from(_, _, _, _)
debuff_from(b, boosts, i, expected_attacks) ==
    IF i > Len(boosts) THEN 0
    ELSE LET stat == boosts[i][1]
             debuff_amount == boosts[i][2]
             current_boost == b.opponent_active_pokemon.boosts[stat]
         IN  IF debuff_amount < 0
             THEN (IF current_boost <= 0 - 6 THEN 0
                   ELSE debuff_value(b, stat, current_boost, expected_attacks))
             ELSE debuff_from(b, boosts, i + 1, expected_attacks)

evaluate_debuff(b, move) ==
    LET opponent == b.opponent_active_pokemon
        active == b.active_pokemon
    IN  IF opponent.is_none \/ move.boosts = <<>> \/ active.is_none THEN 0
        ELSE LET remaining_turns == estimate_remaining_turns(b)
                 expected_attacks == Min(2, remaining_turns \div 3)
             IN  debuff_from(b, move.boosts, 1, expected_attacks)

\* sub in move_id, over the move identifiers of the model.
Contains(move_id, sub) ==
    <<move_id, sub>> \in
        {<<"trick", "trick">>, <<"trickroom", "trick">>,
         <<"rapidspin", "rapidspin">>, <<"defog", "defog">>,
         <<"uturn", "uturn">>, <<"voltswitch", "voltswitch">>,
         <<"flipturn", "flipturn">>}

\* Mutant: one flag for all battles.
trick_was_used_anywhere(used, battle_tag) == used # {}

\* self.used_trick.get(battle_tag, False)
trick_was_used(used, battle_tag) == battle_tag \in used

\* Returns the score and self.used_trick as the call leaves it.
evaluate_utility(b, move, used) ==
    LET move_id == move.id
    IN  IF Contains(move_id, "trick")
        THEN LET battle_tag == b.battle_tag
             IN  IF trick_was_used(used, battle_tag)
                 THEN [score |-> 0, used_trick |-> used]
                 ELSE LET remaining_turns == estimate_remaining_turns(b)
                          best_damage == get_best_damage_score(b, "")
                      IN  [score |-> IF remaining_turns > 5
                                     THEN (best_damage * 3) \div 2
                                     ELSE (best_damage * 4) \div 5,
                           used_trick |-> used \cup {battle_tag}]
        ELSE IF Contains(move_id, "rapidspin") \/ Contains(move_id, "defog")
        THEN [score |-> IF b.side_conditions # {}
                           /\ count_remaining_mons(b.team) >= 2
                        THEN (count_remaining_mons(b.team) * 3 * 25 * Scale) \div 2
                        ELSE 0,
              used_trick |-> used]
        ELSE IF Contains(move_id, "uturn") \/ Contains(move_id, "voltswitch")
                \/ Contains(move_id, "flipturn")
        THEN [score |-> evaluate_damage_move(b, move), used_trick |-> used]
        ELSE [score |-> 50 * Scale, used_trick |-> used]

evaluate_status_move(b, move, used) ==
    IF move.side_condition # ""
    THEN [score |-> evaluate_hazard(b, move), used_trick |-> used]
    ELSE IF move.self_boost # <<>>
    THEN [score |-> evaluate_setup_move(b, move), used_trick |-> used]
    ELSE IF move.status # ""
    THEN [score |-> evaluate_status_infliction(b, move), used_trick |-> used]
    ELSE IF move.is_protect_move
    THEN [score |-> evaluate_protect(b, move), used_trick |-> used]
    ELSE IF move.boosts # <<>>
    THEN [score |-> evaluate_debuff(b, move), used_trick |-> used]
    ELSE evaluate_utility(b, move, used)

\* Mutant: the fields of the move are consulted before its category.
calculate_move_score_by_shape(b, i, used) ==
    LET move == b.available_moves[i]
    IN  IF \/ move.category = STATUS
           \/ move.side_condition # "" \/ move.self_boost # <<>> \/ move.status # ""
           \/ move.is_protect_move \/ move.boosts # <<>>
        THEN evaluate_status_move(b, move, used)
        ELSE IF i = max_dmg_move(b)
        THEN [score |-> evaluate_damage_move(b, move), used_trick |-> used]
        ELSE [score |-> 0, used_trick |-> used]

\* i is the position of the move in available_moves (the move's identity).
calculate_move_score(b, i, used) ==
    LET move == b.available_moves[i]
    IN  IF move.category = STATUS THEN evaluate_status_move(b, move, used)
        ELSE IF i = max_dmg_move(b)
        THEN [score |-> evaluate_damage_move(b, move), used_trick |-> used]
        ELSE [score |-> 0, used_trick |-> used]

(***************************************************************************)
(* choose_move.                                                            *)
(***************************************************************************)
\* The list comprehension: the scores in order; an exception ends it.
RECURSIVE score_moves(_, _, _, _)
score_moves(b, i, used, scores) ==
    IF i > Len(b.available_moves)
    THEN [scores |-> scores, used_trick |-> used, raised |-> FALSE]
    ELSE LET r == calculate_move_score(b, i, used)
         IN  IF r.score = Raised
             THEN [scores |-> scores, used_trick |-> r.used_trick, raised |-> TRUE]
             ELSE score_moves(b, i + 1, r.used_trick, Append(scores, r.score))

\* Mutant: the last position holding the greatest key.
last_max(keys) ==
    CHOOSE i \in DOMAIN keys :
        /\ \A j \in DOMAIN keys : keys[j] <= keys[i]
        /\ \A j \in DOMAIN keys : j > i => keys[j] < keys[i]

\* max(seq, key=...): the first position holding the greatest key.
first_max(keys) ==
    CHOOSE i \in DOMAIN keys :
        /\ \A j \in DOMAIN keys : keys[j] <= keys[i]
        /\ \A j \in DOMAIN keys : j < i => keys[j] < keys[i]

choose_move(b, used) ==
    IF b.available_moves # <<>>
    THEN LET r == score_moves(b, 1, used, <<>>)
         IN  IF r.raised
             THEN [order |-> [kind |-> "raise", target |-> 0],
                   move_scores |-> r.scores, used_trick |-> r.used_trick]
             ELSE [order |-> [kind |-> "move", target |-> first_max(r.scores)],
                   move_scores |-> r.scores, used_trick |-> r.used_trick]
    ELSE IF b.available_switches # <<>>
    THEN [order |-> [kind |-> "switch",
                     target |-> first_max([i \in DOMAIN b.available_switches |->
                                   b.available_switches[i].current_hp_fraction])],
          move_scores |-> <<>>, used_trick |-> used]
    ELSE [order |-> [kind |-> "random", target |-> 0],
          move_scores |-> <<>>, used_trick |-> used]

(***************************************************************************)
(* The snapshots of the model.                                             *)
(***************************************************************************)
Battle(tag, turn, active, opponent, team, opponent_team, moves, switches) ==
    [battle_tag |-> tag, turn |-> turn, active_pokemon |-> active,
     opponent_active_pokemon |-> opponent, team |-> team,
     opponent_team |-> opponent_team, side_conditions |-> {},
     opponent_side_conditions |-> {}, available_moves |-> moves,
     available_switches |-> switches]

BattleTags == {"battle-gen9ou-1", "battle-gen9ou-2"}

MaxMoves == 2

MaxEvaluations == 2

Gliscor ==
    Pokemon(100, 352, "Poison Heal", <<"ground", "flying">>, 95, NoBoosts, "", 0)

Swampert == Pokemon(100, 404, "Torrent", <<"water", "ground">>, 60, NoBoosts, "", 0)

Excadrill == Pokemon(50, 362, "Sand Rush", <<"ground", "steel">>, 88, NoBoosts, "", 0)

Goodra == Pokemon(100, 364, "Gooey", <<"steel", "dragon">>, 60, NoBoosts, "", 0)

Foe == Pokemon(100, 100, "", <<"water">>, 80, NoBoosts, "", 0)

Earthquake == Move("earthquake", PHYSICAL, 100, 100, Range(<<80, 85, 90>>))

Flamethrower == Move("flamethrower", SPECIAL, 90, 100, Range(<<80, 90>>))

KnockOff == Move("knockoff", PHYSICAL, 65, 100, Fails)

LowKick == Move("lowkick", PHYSICAL, 0, 100, Fails)

IcePunch == Move("icepunch", PHYSICAL, 75, 100, Range(<<50>>))

FlipTurn == Move("flipturn", PHYSICAL, 60, 100, Range(<<10>>))

Toxic == [Move("toxic", STATUS, 0, 90, Fails) EXCEPT !.status = "tox"]

Protect == [Move("protect", STATUS, 0, 100, Fails) EXCEPT !.is_protect_move = TRUE]

StealthRock ==
    [Move("stealthrock", STATUS, 0, 100, Fails) EXCEPT !.side_condition = "stealthrock"]

SwordsDance ==
    [Move("swordsdance", STATUS, 0, 100, Fails) EXCEPT !.self_boost = <<<<"atk", 2>>>>]

Screech ==
    [Move("screech", STATUS, 0, 85, Fails) EXCEPT !.boosts = <<<<"def", 0 - 2>>>>]

Trick == Move("trick", STATUS, 0, 100, Fails)

TrickRoom == Move("trickroom", STATUS, 0, 100, Fails)

Recover == Move("recover", STATUS, 0, 100, Fails)

MovePool ==
    {Earthquake, Flamethrower, KnockOff, LowKick, IcePunch, FlipTurn, Toxic, Protect,
     StealthRock, SwordsDance, Screech, Trick, TrickRoom, Recover}

\* The sequences of at most n distinct members of S.
RECURSIVE Lists(_, _)
Lists(S, n) ==
    IF n = 0 THEN {<<>>}
    ELSE LET shorter == Lists(S, n - 1)
         IN  shorter \cup
             {Append(l, m) : <<l, m>> \in
                  {p \in shorter \X S :
                       Len(p[1]) = n - 1 /\ \A i \in DOMAIN p[1] : p[1][i] # p[2]}}

\* What the client knows of the two sides: everything, no own active Pokemon,
\* no opponent active Pokemon, an empty opponent roster.
Sides ==
    {[active |-> Gliscor, opponent |-> Foe, opponent_team |-> Team(4, 0)],
     [active |-> None, opponent |-> Foe, opponent_team |-> Team(4, 0)],
     [active |-> Gliscor, opponent |-> None, opponent_team |-> Team(4, 0)],
     [active |-> Gliscor, opponent |-> Foe, opponent_team |-> <<>>]}

SwitchLists == {<<>>, <<Excadrill, Swampert, Goodra>>}

Snapshots ==
    {Battle(tag, 1, s.active, s.opponent, Team(4, 0), s.opponent_team, moves, switches) :
         tag \in BattleTags, s \in Sides, moves \in Lists(MovePool, MaxMoves),
         switches \in SwitchLists}

(***************************************************************************)
(* The agent, called once per decision by the battle client.               *)
(***************************************************************************)
NoCall == [fn |-> "", move |-> 0]

NoOrder == [kind |-> "", target |-> 0]

Idle ==
    /\ used_trick = {}
    /\ call = NoCall
    /\ score = 0
    /\ order = NoOrder
    /\ move_scores = <<>>
    /\ evaluations = [t \in BattleTags |-> 0]

\* calculate_move_score hands this move to evaluate_utility.
reaches_utility(move) ==
    /\ move.category = STATUS
    /\ move.side_condition = "" /\ move.self_boost = <<>> /\ move.status = ""
    /\ ~move.is_protect_move /\ move.boosts = <<>>

\* evaluate_utility's Trick branch is the evaluator of this move.
is_trick_evaluation(move) == reaches_utility(move) /\ Contains(move.id, "trick")

Counted(b, n) ==
    [evaluations EXCEPT ![b.battle_tag] = Min(MaxEvaluations, @ + n)]

(***************************************************************************)
(* The client's reports between two calls, shared by the specifications.   *)
(* Each one ends the call the state remembers.                             *)
(***************************************************************************)
Turns == {1, 6, 16}

Reported(b) ==
    /\ battle' = b
    /\ call' = NoCall
    /\ order' = NoOrder
    /\ move_scores' = <<>>
    /\ UNCHANGED <<used_trick, score, evaluations>>

\* The client turns to another of its concurrent battles.
AnotherBattle ==
    \E tag \in BattleTags \ {battle.battle_tag} :
        Reported([battle EXCEPT !.battle_tag = tag])

\* The battle has moved on to a later turn.
TurnPasses ==
    \E t \in Turns : t > battle.turn /\ Reported([battle EXCEPT !.turn = t])

\* One of our Pokemon has fainted.
OwnFaints ==
    \E i \in DOMAIN battle.team :
        /\ ~battle.team[i].fainted
        /\ \A j \in DOMAIN battle.team : j > i => battle.team[j].fainted
        /\ Reported([battle EXCEPT !.team[i].fainted = TRUE])

\* One of the opponent's Pokemon has fainted.
OpponentFaints ==
    \E i \in DOMAIN battle.opponent_team :
        /\ ~battle.opponent_team[i].fainted
        /\ \A j \in DOMAIN battle.opponent_team :
               j > i => battle.opponent_team[j].fainted
        /\ Reported([battle EXCEPT !.opponent_team[i].fainted = TRUE])

\* A method other than choose_move returned n.
Returned(fn, i, n) ==
    /\ call' = [fn |-> fn, move |-> i]
    /\ score' = n
    /\ UNCHANGED <<battle, order, move_scores>>

(***************************************************************************)
(* Spec: choose_move, called by the client for any snapshot of any of its  *)
(* concurrent battles.                                                     *)
(***************************************************************************)
Init ==
    /\ battle \in Snapshots
    /\ Idle

ChooseMove ==
    LET r == choose_move(battle, used_trick)
        scored == {i \in DOMAIN r.move_scores :
                       is_trick_evaluation(battle.available_moves[i])}
    IN  /\ order' = r.order
        /\ move_scores' = r.move_scores
        /\ used_trick' = r.used_trick
        /\ call' = [fn |-> "choose_move", move |-> 0]
        /\ evaluations' = Counted(battle, Cardinality(scored))
        /\ UNCHANGED <<battle, score>>

Next == ChooseMove \/ AnotherBattle

Spec == Init /\ [][Next]_vars

(***************************************************************************)
(* Claims about choose_move, under Spec.                                   *)
(***************************************************************************)
Decided == call.fn = "choose_move"

\* C1: for every snapshot choose_move returns one action: an order for a move
\* of available_moves when there is one, else an order for a Pokemon of
\* available_switches when there is one, else the random fallback.
C1_ReturnsLegalAction ==
    Decided =>
        IF battle.available_moves # <<>>
        THEN order.kind = "move" /\ order.target \in DOMAIN battle.available_moves
        ELSE IF battle.available_switches # <<>>
        THEN order.kind = "switch"
             /\ order.target \in DOMAIN battle.available_switches
        ELSE order.kind = "random"

\* C2: the move chosen has a score, as calculate_move_score gave it, that no
\* legal move exceeds and that every legal move before it stays below; with
\* switches only, the same holds of the chosen target's HP fraction.
C2_FirstArgMax ==
    Decided =>
        /\ order.kind = "move" =>
               /\ DOMAIN move_scores = DOMAIN battle.available_moves
               /\ \A j \in DOMAIN move_scores :
                      /\ move_scores[j] <= move_scores[order.target]
                      /\ j < order.target => move_scores[j] < move_scores[order.target]
                      /\ ~is_trick_evaluation(battle.available_moves[j]) =>
                             move_scores[j] = calculate_move_score(battle, j, {}).score
        /\ order.kind = "switch" =>
               \A j \in DOMAIN battle.available_switches :
                   LET hp(k) == battle.available_switches[k].current_hp_fraction
                   IN  /\ hp(j) <= hp(order.target)
                       /\ j < order.target => hp(j) < hp(order.target)

\* A later legal move ties with the chosen one at a positive score.
C2_Witness ==
    /\ Decided /\ order.kind = "move"
    /\ \E j \in DOMAIN move_scores :
           /\ j > order.target
           /\ move_scores[j] = move_scores[order.target]
           /\ move_scores[j] > 0

IsDamaging(move) == move.category \in {PHYSICAL, SPECIAL}

\* What the damage evaluator owes a move: the mean of the oracle's sequence,
\* and the base power (0 when unknown) when the oracle fails.
ExpectedDamage(move) ==
    IF move.calc.raises THEN move.base_power * Scale
    ELSE IF move.calc.range = <<>> THEN 0
    ELSE (Sum(move.calc.range) * Scale) \div Len(move.calc.range)

\* C9 as claimed: every legal damaging move is scored its expected damage.
C9_EveryDamagingMoveScoresItsMean ==
    Decided =>
        \A i \in DOMAIN move_scores :
            IsDamaging(battle.available_moves[i]) =>
                move_scores[i] = ExpectedDamage(battle.available_moves[i])

\* The first legal damaging move of the greatest expected damage.
IsStrongest(b, i) ==
    /\ IsDamaging(b.available_moves[i])
    /\ \A j \in DOMAIN b.available_moves :
           IsDamaging(b.available_moves[j]) =>
               /\ ExpectedDamage(b.available_moves[j])
                      <= ExpectedDamage(b.available_moves[i])
               /\ j < i => ExpectedDamage(b.available_moves[j])
                               < ExpectedDamage(b.available_moves[i])

\* C9 as amended: the first legal damaging move of the greatest expected
\* damage is scored the mean of the oracle's sequence (0 for an empty one), or
\* its base power (0 when unknown) when the oracle fails; every other legal
\* damaging move is scored 0; an oracle failure never ends the decision.
C9_StrongestMoveScoresItsMean ==
    Decided =>
        /\ \A i \in DOMAIN move_scores :
               IsDamaging(battle.available_moves[i]) =>
                   move_scores[i] =
                       IF IsStrongest(battle, i)
                       THEN ExpectedDamage(battle.available_moves[i])
                       ELSE 0
        /\ (order.kind = "raise" =>
                \E i \in DOMAIN battle.available_moves :
                    ~IsDamaging(battle.available_moves[i]))

\* A second damaging move is the strongest, and the oracle failed for it.
C9_Witness ==
    /\ Decided /\ order.kind = "move"
    /\ Len(move_scores) >= 2
    /\ IsDamaging(battle.available_moves[1])
    /\ IsStrongest(battle, 2)
    /\ battle.available_moves[2].calc.raises
    /\ move_scores[1] = 0 /\ move_scores[2] > 0

\* The evaluator of a status move reads a field the snapshot lacks.
ReadsMissingField(b, move) ==
    /\ move.category = STATUS
    /\ \/ /\ move.side_condition # ""
          /\ b.opponent_team = <<>>
       \/ /\ move.side_condition = "" /\ move.self_boost # <<>>
          /\ (b.active_pokemon.is_none \/ b.opponent_active_pokemon.is_none)
       \/ /\ move.side_condition = "" /\ move.self_boost = <<>> /\ move.status # ""
          /\ b.opponent_active_pokemon.is_none
       \/ /\ move.side_condition = "" /\ move.self_boost = <<>> /\ move.status = ""
          /\ move.is_protect_move
          /\ b.active_pokemon.is_none
       \/ /\ move.side_condition = "" /\ move.self_boost = <<>> /\ move.status = ""
          /\ ~move.is_protect_move /\ move.boosts # <<>>
          /\ (b.active_pokemon.is_none \/ b.opponent_active_pokemon.is_none)

\* C10: with no own active Pokemon, no opponent active Pokemon or an empty
\* opponent roster, every evaluator completes, those that read the missing
\* field return 0, and choose_move returns an action.
C10_MissingFieldsScoreZero ==
    (/\ Decided
     /\ \/ battle.active_pokemon.is_none
        \/ battle.opponent_active_pokemon.is_none
        \/ battle.opponent_team = <<>>) =>
        /\ order.kind \in {"move", "switch", "random"}
        /\ DOMAIN move_scores = DOMAIN battle.available_moves
        /\ \A i \in DOMAIN move_scores :
               ReadsMissingField(battle, battle.available_moves[i]) =>
                   move_scores[i] = 0

(***************************************************************************)
(* SpecUtility: evaluate_utility, called for the utility moves of the      *)
(* snapshot over concurrent battles.  The movesets hold Trick and utility  *)
(* moves of other families.                                                *)
(***************************************************************************)
Defog == Move("defog", STATUS, 0, 100, Fails)

UtilityMovesets ==
    {<<Flamethrower, Earthquake, Recover, Trick>>, <<Trick, Defog>>,
     <<Recover, Trick, LowKick>>}

InitUtility ==
    /\ battle \in {Battle(tag, 1, Gliscor, Foe, Team(3, 0), Team(3, 0), moves, <<>>) :
                       tag \in BattleTags, moves \in UtilityMovesets}
    /\ Idle

EvaluateUtility ==
    \E i \in DOMAIN battle.available_moves :
        LET move == battle.available_moves[i]
            r == evaluate_utility(battle, move, used_trick)
        IN  /\ reaches_utility(move)
            /\ used_trick' = r.used_trick
            /\ evaluations' =
                   Counted(battle, IF is_trick_evaluation(move) THEN 1 ELSE 0)
            /\ Returned("evaluate_utility", i, r.score)

\* Hazards have been laid on our side.
HazardsOnOurSide ==
    /\ battle.side_conditions = {}
    /\ Reported([battle EXCEPT !.side_conditions = {"stealthrock"}])

NextUtility ==
    \/ EvaluateUtility
    \/ AnotherBattle
    \/ TurnPasses
    \/ OwnFaints
    \/ HazardsOnOurSide

SpecUtility == InitUtility /\ [][NextUtility]_vars

TrickEvaluated ==
    /\ call.fn = "evaluate_utility"
    /\ battle.available_moves[call.move].id = "trick"

TeamSize == 6

Spikes == [Move("spikes", STATUS, 0, 100, Fails) EXCEPT !.side_condition = "spikes"]

HazardMovesets == {<<StealthRock, Earthquake>>, <<Spikes, StealthRock>>}

InitHazard ==
    /\ battle \in {Battle(tag, 1, Gliscor, Foe, Team(TeamSize, 0), <<>>, moves, <<>>) :
                       tag \in BattleTags, moves \in HazardMovesets}
    /\ Idle

EvaluateHazard ==
    \E i \in DOMAIN battle.available_moves :
        /\ battle.available_moves[i].side_condition # ""
        /\ Returned("evaluate_hazard", i,
                    evaluate_hazard(battle, battle.available_moves[i]))
        /\ UNCHANGED <<used_trick, evaluations>>

\* The opponent has sent out a Pokemon not seen before.
OpponentReveals ==
    /\ Len(battle.opponent_team) < TeamSize
    /\ Reported([battle EXCEPT
                     !.opponent_team = Append(@, [fainted |-> FALSE])])

\* A hazard now lies on the opponent's side.
HazardLaid ==
    \E sc \in {"stealthrock", "spikes"} \ battle.opponent_side_conditions :
        Reported([battle EXCEPT !.opponent_side_conditions = @ \cup {sc}])

\* The opponent has cleared its side.
HazardsCleared ==
    /\ battle.opponent_side_conditions # {}
    /\ Reported([battle EXCEPT !.opponent_side_conditions = {}])

NextHazard ==
    \/ EvaluateHazard
    \/ OpponentReveals
    \/ OpponentFaints
    \/ HazardLaid
    \/ HazardsCleared

SpecHazard == InitHazard /\ [][NextHazard]_vars

OpponentRemaining ==
    Cardinality({i \in DOMAIN battle.opponent_team :
                     ~battle.opponent_team[i].fainted})

\* C6: evaluate_hazard returns a positive score exactly when the move's side
\* condition is not on the opponent's side and the opponent has at least 3
\* Pokemon that have not fainted, and 0 in every other case.
C6_HazardPositiveIff ==
    call.fn = "evaluate_hazard" =>
        LET fresh == battle.available_moves[call.move].side_condition
                         \notin battle.opponent_side_conditions
        IN  /\ score > 0 <=> (fresh /\ OpponentRemaining >= 3)
            /\ ~(fresh /\ OpponentRemaining >= 3) => score = 0

\* The hazard lies on the side of an opponent with 4 Pokemon left, and the
\* move is evaluated again.
C6_Witness ==
    /\ call.fn = "evaluate_hazard"
    /\ battle.available_moves[call.move].side_condition
           \in battle.opponent_side_conditions
    /\ OpponentRemaining = 4
    /\ score = 0

(***************************************************************************)
(* SpecStatus: evaluate_status_infliction over one battle.                 *)
(***************************************************************************)
WillOWisp == [Move("willowisp", STATUS, 0, 85, Fails) EXCEPT !.status = "brn"]

Hypnosis == [Move("hypnosis", STATUS, 0, 60, Fails) EXCEPT !.status = "slp"]

SleepPowder == [Move("sleeppowder", STATUS, 0, 75, Fails) EXCEPT !.status = "slp"]

Glare == [Move("glare", STATUS, 0, 100, Fails) EXCEPT !.status = "par"]

PoisonGas == [Move("poisongas", STATUS, 0, 70, Fails) EXCEPT !.status = "psn"]

Sing == [Move("sing", STATUS, 0, 55, Fails) EXCEPT !.status = "slp"]

StatusMovesets ==
    {<<Toxic, SleepPowder, Hypnosis, Earthquake>>, <<WillOWisp, PoisonGas, Sing>>,
     <<SleepPowder, Glare>>}

\* Opponents as the client shows them: max_hp is 100, or 0 while unknown.
Foes ==
    {Pokemon(hp, max_hp, "", <<"water">>, 80, NoBoosts, "", 0) :
         hp \in {100, 40}, max_hp \in {100, 0}}

InitStatus ==
    /\ battle \in {Battle(tag, 1, Gliscor, foe, Team(3, 0), Team(3, 0), moves, <<>>) :
                       tag \in BattleTags, foe \in Foes, moves \in StatusMovesets}
    /\ Idle

EvaluateStatusInfliction ==
    \E i \in DOMAIN battle.available_moves :
        /\ battle.available_moves[i].status # ""
        /\ Returned("evaluate_status_infliction", i,
                    evaluate_status_infliction(battle, battle.available_moves[i]))
        /\ UNCHANGED <<used_trick, evaluations>>

\* The opponent's active Pokemon now carries a status condition.
OpponentStatused ==
    /\ ~battle.opponent_active_pokemon.is_none
    /\ battle.opponent_active_pokemon.status = ""
    /\ \E st \in {"tox", "brn", "slp"} :
           Reported([battle EXCEPT !.opponent_active_pokemon.status = st])

\* The opponent's active Pokemon has left the field, or another has come in.
OpponentChanges ==
    \E foe \in Foes \cup {None} :
        /\ foe # battle.opponent_active_pokemon
        /\ Reported([battle EXCEPT !.opponent_active_pokemon = foe])

NextStatus ==
    \/ EvaluateStatusInfliction
    \/ OpponentStatused
    \/ OpponentChanges
    \/ OpponentFaints
    \/ TurnPasses

SpecStatus == InitStatus /\ [][NextStatus]_vars

\* C7: evaluate_status_infliction returns 0 when the opponent's active Pokemon
\* carries a status, whatever the accuracy, and when the accuracy is below
\* 0.7; against an opponent without status a move of accuracy >= 0.85 scores
\* above every move of accuracy in [0.7, 0.85) of the same snapshot, and both
\* score above 0.
C7_StatusInfliction ==
    call.fn = "evaluate_status_infliction" =>
        LET move == battle.available_moves[call.move]
            opponent == battle.opponent_active_pokemon
        IN  /\ (~opponent.is_none /\ opponent.status # "") => score = 0
            /\ move.accuracy < 70 => score = 0
            /\ (~opponent.is_none /\ opponent.status = "" /\ move.accuracy >= 85) =>
                   /\ score > 0
                   /\ \A j \in DOMAIN battle.available_moves :
                          LET other == battle.available_moves[j]
                          IN  (other.status # "" /\ other.accuracy >= 70
                               /\ other.accuracy < 85) =>
                                  /\ evaluate_status_infliction(battle, other) > 0
                                  /\ evaluate_status_infliction(battle, other) < score
            /\ (~opponent.is_none /\ opponent.status = "" /\ move.accuracy >= 70) =>
                   score > 0

\* A move of accuracy 0.85 is evaluated late in a battle against an opponent
\* without status, beside a move of accuracy 0.7.
C7_Witness ==
    /\ call.fn = "evaluate_status_infliction"
    /\ battle.available_moves[call.move].accuracy = 85
    /\ \E j \in DOMAIN battle.available_moves :
           battle.available_moves[j].accuracy = 70
    /\ ~battle.opponent_active_pokemon.is_none
    /\ battle.opponent_active_pokemon.status = ""
    /\ battle.turn = 16
    /\ score > 0

(***************************************************************************)
(* SpecProtect: evaluate_protect over one battle.                          *)
(***************************************************************************)
MaxProtects == 3

ProtectMovesets ==
    {<<Earthquake, Toxic, Protect, StealthRock>>, <<Protect, Recover>>,
     <<Protect, KnockOff, LowKick>>}

Protectors ==
    {Pokemon(100, max_hp, ability, <<"ground", "flying">>, 95, NoBoosts, "", 0) :
         max_hp \in {352, 0}, ability \in {"Poison Heal", "Torrent", ""}}

InitProtect ==
    /\ battle \in {Battle(tag, 1, active, Foe, Team(3, 0), Team(3, 0), moves, <<>>) :
                       tag \in BattleTags, active \in Protectors,
                       moves \in ProtectMovesets}
    /\ Idle

EvaluateProtect ==
    \E i \in DOMAIN battle.available_moves :
        /\ battle.available_moves[i].is_protect_move
        /\ Returned("evaluate_protect", i,
                    evaluate_protect(battle, battle.available_moves[i]))
        /\ UNCHANGED <<used_trick, evaluations>>

\* Our active Pokemon has used a protection move once more in a row.
ProtectUsed ==
    /\ ~battle.active_pokemon.is_none
    /\ battle.active_pokemon.protect_counter < MaxProtects
    /\ Reported([battle EXCEPT !.active_pokemon.protect_counter = @ + 1])

\* Our active Pokemon has used another move.
OtherMoveUsed ==
    /\ ~battle.active_pokemon.is_none
    /\ battle.active_pokemon.protect_counter > 0
    /\ Reported([battle EXCEPT !.active_pokemon.protect_counter = 0])

\* Our active Pokemon has left the field, or another has come in.
ActiveChanges ==
    \E mon \in Protectors \cup {None} :
        /\ mon # battle.active_pokemon
        /\ Reported([battle EXCEPT !.active_pokemon = mon])

NextProtect ==
    \/ EvaluateProtect
    \/ ProtectUsed
    \/ OtherMoveUsed
    \/ ActiveChanges

SpecProtect == InitProtect /\ [][NextProtect]_vars

\* C8: evaluate_protect returns 0 whenever the active Pokemon's count of
\* consecutive protects is 2 or more, for every ability and every set of
\* legal moves.
C8_ProtectZeroFromTwo ==
    (/\ call.fn = "evaluate_protect"
     /\ ~battle.active_pokemon.is_none
     /\ battle.active_pokemon.protect_counter >= 2) => score = 0

\* Protect is evaluated for a Pokemon with the passive-healing ability that
\* has protected twice in a row.
C8_Witness ==
    /\ call.fn = "evaluate_protect"
    /\ battle.active_pokemon.ability = "Poison Heal"
    /\ battle.active_pokemon.protect_counter = 2
    /\ score = 0

(***************************************************************************)
(* SpecSetup: evaluate_setup_move over one battle, from boosts of 0.       *)
(***************************************************************************)
ShellSmash ==
    [Move("shellsmash", STATUS, 0, 100, Fails) EXCEPT
         !.self_boost = <<<<"def", 0 - 1>>, <<"spd", 0 - 1>>, <<"atk", 2>>,
                          <<"spa", 2>>, <<"spe", 2>>>>]

Curse ==
    [Move("curse", STATUS, 0, 100, Fails) EXCEPT
         !.self_boost = <<<<"atk", 1>>, <<"def", 1>>, <<"spe", 0 - 1>>>>]

SetupMovesets ==
    {<<SwordsDance, Earthquake>>, <<ShellSmash, Flamethrower>>, <<Curse, KnockOff>>}

Setters ==
    {Pokemon(hp, 362, "Sand Rush", types, 88, NoBoosts, "", 0) :
         hp \in {100, 80, 79, 50}, types \in {<<"grass">>, <<"fire">>}}

InitSetup ==
    /\ battle \in {Battle(tag, 1, active, Foe, Team(3, 0), Team(3, 0), moves, <<>>) :
                       tag \in BattleTags, active \in Setters,
                       moves \in SetupMovesets}
    /\ Idle

EvaluateSetupMove ==
    \E i \in DOMAIN battle.available_moves :
        /\ battle.available_moves[i].self_boost # <<>>
        /\ Returned("evaluate_setup_move", i,
                    evaluate_setup_move(battle, battle.available_moves[i]))
        /\ UNCHANGED <<used_trick, evaluations>>

\* The stages after the deltas of a move took effect, kept within -6..+6.
RECURSIVE Boosted(_, _, _)
Boosted(boosts, deltas, i) ==
    IF i > Len(deltas) THEN boosts
    ELSE Boosted([boosts EXCEPT ![deltas[i][1]] =
                      Max(0 - 6, Min(6, @ + deltas[i][2]))],
                 deltas, i + 1)

\* Our active Pokemon has used one of its setup moves.
SetupUsed ==
    \E i \in DOMAIN battle.available_moves :
        LET move == battle.available_moves[i]
            boosted == Boosted(battle.active_pokemon.boosts, move.self_boost, 1)
        IN  /\ move.self_boost # <<>>
            /\ boosted # battle.active_pokemon.boosts
            /\ Reported([battle EXCEPT !.active_pokemon.boosts = boosted])

NextSetup ==
    \/ EvaluateSetupMove
    \/ SetupUsed
    \/ TurnPasses
    \/ OpponentFaints

SpecSetup == InitSetup /\ [][NextSetup]_vars

\* The move raises a stat, and every stat it raises is at stage +6.
RaisedStatsAtCap(mon, move) ==
    /\ \E i \in DOMAIN move.self_boost : move.self_boost[i][2] > 0
    /\ \A i \in DOMAIN move.self_boost :
           move.self_boost[i][2] > 0 => mon.boosts[move.self_boost[i][1]] = 6

\* C5: evaluate_setup_move returns 0 when the active Pokemon's HP fraction is
\* below 0.8, when the matchup estimate is negative, and when every stat the
\* move raises is at stage +6, also for a move that raises some stats and
\* lowers others.
C5_SetupZero ==
    call.fn = "evaluate_setup_move" =>
        LET active == battle.active_pokemon
            move == battle.available_moves[call.move]
        IN  (\/ active.current_hp_fraction < 80
             \/ estimate_matchup(active, battle.opponent_active_pokemon) < 0
             \/ RaisedStatsAtCap(active, move)) => score = 0

(***************************************************************************)
(* SpecDebuff: evaluate_debuff over one battle, from boosts of 0: the      *)
(* opponent raises the stat our move lowers, and our move is used on it.   *)
(***************************************************************************)
FakeTears ==
    [Move("faketears", STATUS, 0, 100, Fails) EXCEPT !.boosts = <<<<"spd", 0 - 2>>>>]

Growl == [Move("growl", STATUS, 0, 100, Fails) EXCEPT !.boosts = <<<<"atk", 0 - 1>>>>]

DebuffMovesets ==
    {<<Screech, Earthquake>>, <<Screech, Flamethrower>>, <<FakeTears, KnockOff>>,
     <<Growl, Flamethrower, IcePunch>>}

InitDebuff ==
    /\ battle \in {Battle(tag, 1, Swampert, Foe, Team(3, 0), Team(3, 0), moves, <<>>) :
                       tag \in BattleTags, moves \in DebuffMovesets}
    /\ Idle

EvaluateDebuff ==
    \E i \in DOMAIN battle.available_moves :
        /\ battle.available_moves[i].boosts # <<>>
        /\ Returned("evaluate_debuff", i,
                    evaluate_debuff(battle, battle.available_moves[i]))
        /\ UNCHANGED <<used_trick, evaluations>>

\* The move just evaluated has been used: the opponent's stages are lowered.
\* The state keeps the score the move had before.
DebuffApplied ==
    /\ call.fn = "evaluate_debuff"
    /\ LET move == battle.available_moves[call.move]
           lowered == Boosted(battle.opponent_active_pokemon.boosts, move.boosts, 1)
       IN  /\ lowered # battle.opponent_active_pokemon.boosts
           /\ battle' = [battle EXCEPT !.opponent_active_pokemon.boosts = lowered]
    /\ call' = [fn |-> "applied", move |-> call.move]
    /\ UNCHANGED <<used_trick, score, order, move_scores, evaluations>>

\* The opponent has raised, by one stage, a stat one of our moves lowers.
OpponentBoosts ==
    \E i \in DOMAIN battle.available_moves :
        LET move == battle.available_moves[i]
        IN  /\ move.boosts # <<>>
            /\ battle.opponent_active_pokemon.boosts[move.boosts[1][1]] < 6
            /\ Reported([battle EXCEPT
                   !.opponent_active_pokemon.boosts[move.boosts[1][1]] = @ + 1])

NextDebuff ==
    \/ EvaluateDebuff
    \/ DebuffApplied
    \/ OpponentBoosts
    \/ TurnPasses

SpecDebuff == InitDebuff /\ [][NextDebuff]_vars

\* The score of the move in the same snapshot with the stat it lowers at 0.
FirstUseValue(b, move) ==
    evaluate_debuff(
        [b EXCEPT !.opponent_active_pokemon.boosts[move.boosts[1][1]] = 0], move)

\* C4: with the rest of the snapshot fixed, over repeated applications of a
\* debuff move from any stage of the opponent's stat, the score of
\* evaluate_debuff never exceeds its value at stage 0 and never increases
\* from one application to the next.
C4_DebuffNeverIncreases ==
    [][/\ call'.fn = "evaluate_debuff" =>
              score' <= FirstUseValue(battle', battle'.available_moves[call'.move])
       /\ (call.fn = "applied" /\ call'.fn = "evaluate_debuff"
           /\ call'.move = call.move) => score' <= score]_vars

\* The category of attack that follows up on a lowered stat: physical moves
\* for defense, special moves for special defense.
FollowUp(stat) ==
    IF stat = "def" THEN PHYSICAL ELSE IF stat = "spd" THEN SPECIAL ELSE ""

HasMoveOf(b, category) ==
    \E i \in DOMAIN b.available_moves : b.available_moves[i].category = category

\* C11: evaluate_debuff returns 0 for a defense-lowering move when no
\* physical attack move is among the legal moves, and 0 for a
\* special-defense-lowering move when no special attack move is among the
\* legal moves, for every boost stage of the opponent.
C11_DebuffZeroWithoutFollowUp ==
    call.fn = "evaluate_debuff" =>
        LET stat == battle.available_moves[call.move].boosts[1][1]
        IN  (stat \in {"def", "spd"} /\ ~HasMoveOf(battle, FollowUp(stat)))
                => score = 0

(***************************************************************************)
(* Claims about the default score and the dispatch, under Spec.            *)
(***************************************************************************)
\* evaluate_utility has no branch for the move: it gets the default score.
Unclassified(move) ==
    /\ reaches_utility(move)
    /\ \A sub \in {"trick", "rapidspin", "defog", "uturn", "voltswitch", "flipturn"} :
           ~Contains(move.id, sub)

\* A damaging move of positive expected damage, or a classified status move
\* that its evaluator scored above 0.
RealOption(b, j, scores) ==
    LET move == b.available_moves[j]
    IN  \/ IsDamaging(move) /\ ExpectedDamage(move) > 0
        \/ move.category = STATUS /\ ~Unclassified(move) /\ scores[j] > 0

\* C12: the score of an unclassified status move is not 0 and is strictly
\* below the expected damage of every legal damaging move that has some and
\* below the score of every legal classified status move scored above 0;
\* choose_move never selects an unclassified move while such a move is legal.
C12_DefaultScoreIsLowest ==
    (Decided /\ order.kind = "move") =>
        \A i \in DOMAIN move_scores :
            Unclassified(battle.available_moves[i]) =>
                /\ move_scores[i] # 0
                /\ \A j \in DOMAIN move_scores :
                       RealOption(battle, j, move_scores) =>
                           /\ order.target # i
                           /\ IF IsDamaging(battle.available_moves[j])
                              THEN move_scores[i] < ExpectedDamage(battle.available_moves[j])
                              ELSE move_scores[i] < move_scores[j]

(***************************************************************************)
(* Claims about evaluate_protect's values, under SpecProtect.              *)
(***************************************************************************)
\* The score of the move in the same snapshot for an active Pokemon with the
\* passive-healing ability that has not just protected.
HealingValue(b, move) ==
    evaluate_protect(
        [b EXCEPT !.active_pokemon.ability = "Poison Heal",
                  !.active_pokemon.protect_counter = 0], move)

\* C13: with the rest of the snapshot fixed, no score of evaluate_protect at
\* counter 0 or 1 exceeds the score with the passive-healing ability at
\* counter 0; with that ability the score at counter 1 is half of it, and
\* without it the score at counter 1 is 0.
C13_ProtectHighestWhenHealing ==
    (call.fn = "evaluate_protect" /\ ~battle.active_pokemon.is_none) =>
        LET active == battle.active_pokemon
            healing == HealingValue(battle, battle.available_moves[call.move])
        IN  /\ active.protect_counter <= 1 => score <= healing
            /\ active.protect_counter = 1 =>
                   IF is_poison_heal(active.ability) THEN 2 * score = healing
                   ELSE score = 0

(***************************************************************************)
(* SpecDispatch: calculate_move_score over the moves of one snapshot.  The *)
(* movesets hold damaging moves that lower the user's own stats and a      *)
(* status move that both poisons and lowers a stat.                        *)
(***************************************************************************)
DracoMeteor ==
    [Move("dracometeor", SPECIAL, 130, 90, Range(<<100, 110>>))
         EXCEPT !.self_boost = <<<<"spa", 0 - 2>>>>]

CloseCombat ==
    [Move("closecombat", PHYSICAL, 120, 100, Fails)
         EXCEPT !.self_boost = <<<<"def", 0 - 1>>, <<"spd", 0 - 1>>>>]

FlashCannon == Move("flashcannon", SPECIAL, 80, 100, Range(<<60>>))

ToxicThread ==
    [Move("toxicthread", STATUS, 0, 100, Fails)
         EXCEPT !.status = "psn", !.boosts = <<<<"spe", 0 - 1>>>>]

DispatchMovesets ==
    {<<DracoMeteor, FlashCannon, ToxicThread, Protect>>,
     <<StealthRock, SwordsDance, Screech, Recover>>,
     <<CloseCombat, Earthquake, Toxic, Trick>>}

InitDispatch ==
    /\ battle \in {Battle(tag, 1, Goodra, Foe, Team(3, 0), Team(3, 0), moves, <<>>) :
                       tag \in BattleTags, moves \in DispatchMovesets}
    /\ Idle

CalculateMoveScore ==
    \E i \in DOMAIN battle.available_moves :
        LET move == battle.available_moves[i]
            r == calculate_move_score(battle, i, used_trick)
        IN  /\ used_trick' = r.used_trick
            /\ evaluations' =
                   Counted(battle, IF is_trick_evaluation(move) THEN 1 ELSE 0)
            /\ Returned("calculate_move_score", i, r.score)

NextDispatch ==
    \/ CalculateMoveScore
    \/ AnotherBattle
    \/ TurnPasses
    \/ OpponentFaints

SpecDispatch == InitDispatch /\ [][NextDispatch]_vars

\* The evaluator of the first predicate of the list that the move matches.
FirstMatch(move) ==
    IF move.side_condition # "" THEN "evaluate_hazard"
    ELSE IF move.self_boost # <<>> THEN "evaluate_setup_move"
    ELSE IF move.status # "" THEN "evaluate_status_infliction"
    ELSE IF move.is_protect_move THEN "evaluate_protect"
    ELSE IF move.boosts # <<>> THEN "evaluate_debuff"
    ELSE ""

\* What the evaluator returns for the move.
ValueOf(evaluator, b, move, used) ==
    CASE evaluator = "evaluate_hazard" -> evaluate_hazard(b, move)
      [] evaluator = "evaluate_setup_move" -> evaluate_setup_move(b, move)
      [] evaluator = "evaluate_status_infliction" -> evaluate_status_infliction(b, move)
      [] evaluator = "evaluate_protect" -> evaluate_protect(b, move)
      [] evaluator = "evaluate_debuff" -> evaluate_debuff(b, move)
      [] evaluator = "evaluate_utility" -> evaluate_utility(b, move, used).score
      [] evaluator = "evaluate_damage_move" -> evaluate_damage_move(b, move)
      [] OTHER -> 0

\* The one list of the claim: the category is looked at last.
ListedEvaluator(move) ==
    IF FirstMatch(move) # "" THEN FirstMatch(move)
    ELSE IF move.category = STATUS THEN "evaluate_utility"
    ELSE "evaluate_damage_move"

\* The category first: the list is for status-category moves only, and of
\* the damaging moves only the strongest has an evaluator.
CategoryFirstEvaluator(b, i) ==
    LET move == b.available_moves[i]
    IN  IF move.category = STATUS
        THEN (IF FirstMatch(move) # "" THEN FirstMatch(move) ELSE "evaluate_utility")
        ELSE IF IsStrongest(b, i) THEN "evaluate_damage_move"
        ELSE ""

C15_FlagRecordsUse ==
    [][/\ used_trick \subseteq used_trick'
       /\ \A tag \in used_trick' \ used_trick :
              /\ tag = battle.battle_tag
              /\ order'.kind = "move"
              /\ battle.available_moves[order'.target].id = "trick"]_vars

(***************************************************************************)
(* The reference policy: every damaging move is scored by the damage       *)
(* evaluator, every status move by evaluate_status_move, in input order.   *)
(***************************************************************************)
RECURSIVE ReferenceScores(_, _, _, _)
ReferenceScores(b, i, used, scores) ==
    IF i > Len(b.available_moves) THEN scores
    ELSE LET move == b.available_moves[i]
             r == IF IsDamaging(move)
                  THEN [score |-> evaluate_damage_move(b, move), used_trick |-> used]
                  ELSE evaluate_status_move(b, move, used)
         IN  IF r.score = Raised THEN scores
             ELSE ReferenceScores(b, i + 1, r.used_trick, Append(scores, r.score))

\* The first position of the greatest reference score.
ReferencePick(b, used) ==
    LET scores == ReferenceScores(b, 1, used, <<>>)
    IN  CHOOSE i \in DOMAIN scores :
            /\ \A j \in DOMAIN scores : scores[j] <= scores[i]
            /\ \A j \in DOMAIN scores : j < i => scores[j] < scores[i]

\* C16: for every list of legal moves and every oracle outcome of
\* non-negative damage, the move choose_move returns is the move the
\* reference policy returns: the first one of the greatest score when every
\* damaging move is scored by evaluate_damage_move and every status move by
\* evaluate_status_move.
C16_SameChoiceAsReference ==
    [][(call'.fn = "choose_move" /\ order'.kind = "move") =>
           order'.target = ReferencePick(battle, used_trick)]_vars

\* The first of two damaging moves of the same positive expected damage was
\* returned, and the second was scored 0.
C16_Witness ==
    /\ Decided /\ order.kind = "move"
    /\ order.target = 1
    /\ Len(move_scores) = 2
    /\ IsDamaging(battle.available_moves[1])
    /\ IsDamaging(battle.available_moves[2])
    /\ ExpectedDamage(battle.available_moves[2]) =
           ExpectedDamage(battle.available_moves[1])
    /\ move_scores[1] > 0
    /\ move_scores[2] = 0

====
